---- MODULE Spec2Model ----
(***************************************************************************)
(* The generic datapath of the XDP lightweight filter                      *)
(* (src/src/xdplwf/generic.c): the attach/detach state machine of          *)
(* XDP_LWF_GENERIC, the per-direction (RX/TX) reference-counted            *)
(* activation protocol of XDP_LWF_DATAPATH_BYPASS, the delay-dereference   *)
(* worker thread and the two-phase handler installation.                   *)
(*                                                                         *)
(* Time is counted in whole seconds of KeQueryInterruptTime.  Every        *)
(* section the code runs under Generic->Lock is one or two steps of the    *)
(* context that holds the lock; steps outside the lock interleave freely.  *)
(***************************************************************************)
EXTENDS Integers, FiniteSets, TLC

\* ------------------------------------------------------------------ bounds

\* The interrupt-time clock runs from 0 to MaxTime seconds.
MaxTime == 3

\* References consumers take during a run, over both slots.
MaxRefs == 2

\* References consumers take during a burst that NDIS serves no restart in.
MaxBurstRefs == 3

\* System threads that PsCreateSystemThread can have alive at once.
MaxWorkers == 2

\* DELAY_DETACH_DEFAULT_TIMEOUT_SEC is 5 * 60 in the source; the model scales
\* the default debounce interval down to a few seconds.
DELAY_DETACH_DEFAULT_TIMEOUT_SEC == 2

\* The value the registry holds for GenericDelayDetachTimeoutSec when it is set.
RegistryTimeoutSec == 1

\* ------------------------------------------------------------- the state

Dirs == {"Rx", "Tx"}

Workers == 1 .. MaxWorkers

VARIABLES
    Lock,                           \* Generic->Lock: "free", or who holds it exclusively
    ReferenceCount,                 \* Generic->ReferenceCount
    CleanupEvent,                   \* Generic->CleanupEvent
    InterfaceRemovedEvent,          \* Generic->InterfaceRemovedEvent
    Registration,                   \* Generic->Registration # NULL
    XdpIfInterfaceHandle,           \* Generic->XdpIfInterfaceHandle # NULL
    Datapath,                       \* Generic->Rx.Datapath, Generic->Tx.Datapath
    GenericDelayDetachTimeoutSec,   \* the global debounce interval, seconds
    now,                            \* KeQueryInterruptTime, seconds
    worker,                         \* the delay-dereference threads (Created: when)
    caller,                         \* the queue operation inside a (de)reference call
    held,                           \* per slot: references issued less dereference calls
    issued,                         \* per slot: references issued so far
    finalized,                      \* per slot: decrements done so far
    filter,                         \* the NDIS filter module's pause/restart position
    Handlers,                       \* XdpGenericFilterSetOptions' RxInserted, TxInserted
    RestartRequested,               \* NdisFRestartFilter was called and not yet served
    lifecycle,                      \* the attach/detach position
    AttachStatus,                   \* what XdpGenericAttachInterface returned
    AddIf,                          \* the XDP_ADD_INTERFACE descriptor is populated
    DirectoryRegistered,            \* the interface directory holds a registration
    Bugcheck                        \* an FRE_ASSERT failed

vars ==
    << Lock, ReferenceCount, CleanupEvent, InterfaceRemovedEvent, Registration,
       XdpIfInterfaceHandle, Datapath, GenericDelayDetachTimeoutSec, now, worker,
       caller, held, issued, finalized, filter, Handlers, RestartRequested,
       lifecycle, AttachStatus, AddIf, DirectoryRegistered, Bugcheck >>

genericVars ==
    << ReferenceCount, CleanupEvent, InterfaceRemovedEvent, Registration,
       XdpIfInterfaceHandle >>

attachVars == << lifecycle, AttachStatus, AddIf, DirectoryRegistered >>

ghostVars == << held, issued, finalized >>

filterVars == << filter, Handlers >>

IdleWorker ==
    [pc |-> "idle", Dir |-> "Rx", DelayInterval |-> 0, TimeSinceLastDeref |-> 0,
     WaitUntil |-> 0, Status |-> "NONE", Created |-> 0]

IdleCaller == [pc |-> "idle", Dir |-> "Rx", Op |-> "none", NeedRestart |-> FALSE]

NoHandlers == [Rx |-> FALSE, Tx |-> FALSE]

ZeroDatapath ==
    [ReferenceCount |-> 0, Inserted |-> FALSE, ReadyEvent |-> FALSE,
     LastDereferenceTimestamp |-> 0]

\* The filter context is allocated zeroed; nothing is attached yet.
Init ==
    /\ Lock = "free"
    /\ ReferenceCount = 0
    /\ CleanupEvent = FALSE
    /\ InterfaceRemovedEvent = FALSE
    /\ Registration = FALSE
    /\ XdpIfInterfaceHandle = FALSE
    /\ Datapath = [d \in Dirs |-> ZeroDatapath]
    /\ GenericDelayDetachTimeoutSec = DELAY_DETACH_DEFAULT_TIMEOUT_SEC
    /\ now = 0
    /\ worker = [w \in Workers |-> IdleWorker]
    /\ caller = IdleCaller
    /\ held = [d \in Dirs |-> 0]
    /\ issued = [d \in Dirs |-> 0]
    /\ finalized = [d \in Dirs |-> 0]
    /\ filter = "paused"
    /\ Handlers = NoHandlers
    /\ RestartRequested = FALSE
    /\ lifecycle = "uninitialized"
    /\ AttachStatus = "none"
    /\ AddIf = FALSE
    /\ DirectoryRegistered = FALSE
    /\ Bugcheck = FALSE

\* ------------------------------------------------- the object reference

\* A first reference that takes the object reference twice.
C22_ObjectReferenceTakenTwice ==
    /\ ReferenceCount' = ReferenceCount + 2
    /\ UNCHANGED CleanupEvent

\* A first reference that does not take the object reference.
C10_ObjectReferenceNotTaken == UNCHANGED << ReferenceCount, CleanupEvent >>

\* XdpGenericReference: XdpIncrementReferenceCount(&Generic->ReferenceCount).
XdpGenericReference ==
    /\ ReferenceCount' = ReferenceCount + 1
    /\ UNCHANGED CleanupEvent

\* A synchronous deactivation that keeps the object reference.
C11_ObjectReferenceKept == UNCHANGED << ReferenceCount, CleanupEvent >>

\* A dereference that signals cleanup one decrement too early.
C19_DereferenceSignalsEarly ==
    /\ ReferenceCount' = ReferenceCount - 1
    /\ CleanupEvent' = (CleanupEvent \/ (ReferenceCount - 1 = 1))

\* A dereference that signals cleanup one decrement too late.
C2_DereferenceSignalsLate ==
    /\ ReferenceCount' = ReferenceCount - 1
    /\ CleanupEvent' = (CleanupEvent \/ (ReferenceCount - 1 < 0))

\* XdpGenericDereference: the decrement that reaches zero sets CleanupEvent.
XdpGenericDereference ==
    /\ ReferenceCount' = ReferenceCount - 1
    /\ CleanupEvent' = (CleanupEvent \/ (ReferenceCount - 1 = 0))

\* A restart request that does not reach NDIS.
C6_RestartNotRequested == UNCHANGED RestartRequested

\* XdpGenericRequestRestart: NdisFRestartFilter(Generic->NdisFilterHandle).
XdpGenericRequestRestart ==
    RestartRequested' = TRUE

\* ------------------------------------------------------------ the clock

\* One clock tick of the model is one second of interrupt time.
TicksPerSecond == 1

RTL_SEC_TO_100NANOSEC(sec) == sec * TicksPerSecond

Min(a, b) == IF a < b THEN a ELSE b

\* KeQueryInterruptTime advances.
Tick ==
    /\ ~Bugcheck
    /\ now < MaxTime
    /\ now' = now + 1
    /\ UNCHANGED << Lock, genericVars, Datapath, GenericDelayDetachTimeoutSec, worker,
                    caller, ghostVars, filterVars, RestartRequested, attachVars,
                    Bugcheck >>

\* A registry update that arms the waits in flight again with the new interval.
C21_UpdateRearmsWaits ==
    /\ ~Bugcheck
    /\ \E querySucceeds \in BOOLEAN :
          LET value == IF querySucceeds THEN RegistryTimeoutSec
                       ELSE DELAY_DETACH_DEFAULT_TIMEOUT_SEC
          IN
          /\ GenericDelayDetachTimeoutSec' = value
          /\ worker' = [w \in Workers |->
                           IF worker[w].pc = "wait"
                           THEN [worker[w] EXCEPT
                                    !.DelayInterval = RTL_SEC_TO_100NANOSEC(value),
                                    !.WaitUntil =
                                        Min(now + RTL_SEC_TO_100NANOSEC(value),
                                            MaxTime + 1)]
                           ELSE worker[w]]
    /\ UNCHANGED << Lock, genericVars, Datapath, now, caller, ghostVars,
                    filterVars, RestartRequested, attachVars, Bugcheck >>

\* XdpGenericRegistryUpdate: the registry watcher's callback.  The query either
\* yields the configured value or fails, which restores the default.
XdpGenericRegistryUpdate ==
    /\ ~Bugcheck
    /\ \E querySucceeds \in BOOLEAN :
          GenericDelayDetachTimeoutSec' =
              IF querySucceeds THEN RegistryTimeoutSec
              ELSE DELAY_DETACH_DEFAULT_TIMEOUT_SEC
    /\ UNCHANGED << Lock, genericVars, Datapath, now, worker, caller, ghostVars,
                    filterVars, RestartRequested, attachVars, Bugcheck >>

\* ------------------------------------------- the datapath slot protocol

\* The queue operations run between a completed attach and the start of detach;
\* a reference already taken may be returned at any later time.
Operational == lifecycle = "active"

ObjectAlive == lifecycle \in {"active", "waitRemoved", "cleanup", "waitCleanup"}

\* A build in which the assertion that guards a decrement does nothing.
C14_AssertionCompiledOut(count) == TRUE

\* FRE_ASSERT(Datapath->ReferenceCount > 0), made before each decrement.
AssertReferenced(count) == count > 0

\* A reference that compares the count after the increment.
C4_ReferenceComparesLate(count) == count <= 1

\* The reference that finds the slot unreferenced takes the object reference and
\* reports that a restart is required: if (Datapath->ReferenceCount++ == 0).
ReferenceNeedsRestart(count) == count = 0

\* XdpGenericReferenceDatapath(Generic, &Generic-><d>.Datapath, &NeedRestart),
\* entered with Generic->Lock held by the caller.
XdpGenericReferenceDatapath(d) ==
    LET count == Datapath[d].ReferenceCount IN
    IF count >= 0
    THEN /\ Datapath' = [Datapath EXCEPT ![d].ReferenceCount = count + 1]
         /\ IF ReferenceNeedsRestart(count)
            THEN XdpGenericReference
            ELSE UNCHANGED << ReferenceCount, CleanupEvent >>
         /\ caller' = [pc |-> "return", Dir |-> d, Op |-> "reference",
                       NeedRestart |-> ReferenceNeedsRestart(count)]
         /\ UNCHANGED << worker, finalized, Bugcheck >>
    ELSE \* FRE_ASSERT(Datapath->ReferenceCount >= 0)
         /\ Bugcheck' = TRUE
         /\ caller' = [pc |-> "bugcheck", Dir |-> d, Op |-> "reference",
                       NeedRestart |-> FALSE]
         /\ UNCHANGED << Datapath, ReferenceCount, CleanupEvent, worker, finalized >>

\* #define DELAY_DETACH_RX 0x1: the bit of the packed context that says RX.
DELAY_DETACH_RX == 1

\* The address of the XDP_LWF_GENERIC, whose lowest bit is clear.
GenericAddress == 8

\* XdpGenericPackContext: (ULONG_PTR)Generic | (RX ? DELAY_DETACH_RX : 0); with
\* the lowest bit of the address clear the OR is a sum.
XdpGenericPackContext(generic, d) ==
    generic + (IF d = "Rx" THEN DELAY_DETACH_RX ELSE 0)

\* A thread that takes every packed context for the TX slot's.
C24_UnpackIgnoresDirection(packed) ==
    [Generic |-> packed - (packed % 2), Datapath |-> "Tx"]

\* XdpGenericUnpackContext: the pointer with the bit masked off, and the slot
\* the bit names.
XdpGenericUnpackContext(packed) ==
    [Generic |-> packed - (packed % 2),
     Datapath |-> IF packed % 2 = DELAY_DETACH_RX THEN "Rx" ELSE "Tx"]

\* The lowest thread slot PsCreateSystemThread can use.
FreeWorkers == {w \in Workers : worker[w].pc = "idle"}

NextWorker == CHOOSE w \in FreeWorkers : \A v \in FreeWorkers : w <= v

\* XdpGenericDereferenceDatapath(Generic, &Generic-><d>.Datapath, &NeedRestart),
\* entered with Generic->Lock held by the caller.  created: PsCreateSystemThread
\* succeeded.
XdpGenericDereferenceDatapath(d, created) ==
    LET count   == Datapath[d].ReferenceCount
        stamped == [Datapath EXCEPT ![d].LastDereferenceTimestamp = now]
    IN
    IF count = 1 /\ created
    THEN \* the thread owns the final decrement
         /\ Datapath' = stamped
         /\ worker' = [worker EXCEPT ![NextWorker] =
                          [IdleWorker EXCEPT
                              !.pc = "start",
                              !.Dir = XdpGenericUnpackContext(
                                          XdpGenericPackContext(GenericAddress, d)
                                      ).Datapath,
                              !.Created = now]]
         /\ caller' = [pc |-> "return", Dir |-> d, Op |-> "dereference",
                       NeedRestart |-> FALSE]
         /\ UNCHANGED << ReferenceCount, CleanupEvent, finalized, Bugcheck >>
    ELSE IF count = 1
    THEN \* thread creation failed: deactivate synchronously
         /\ Datapath' = [stamped EXCEPT ![d].ReadyEvent = FALSE,
                                        ![d].ReferenceCount = count - 1]
         /\ XdpGenericDereference
         /\ finalized' = [finalized EXCEPT ![d] = @ + 1]
         /\ caller' = [pc |-> "return", Dir |-> d, Op |-> "dereference",
                       NeedRestart |-> TRUE]
         /\ UNCHANGED << worker, Bugcheck >>
    ELSE IF AssertReferenced(count)
    THEN /\ Datapath' = [stamped EXCEPT ![d].ReferenceCount = count - 1]
         /\ finalized' = [finalized EXCEPT ![d] = @ + 1]
         /\ caller' = [pc |-> "return", Dir |-> d, Op |-> "dereference",
                       NeedRestart |-> FALSE]
         /\ UNCHANGED << ReferenceCount, CleanupEvent, worker, Bugcheck >>
    ELSE \* FRE_ASSERT(Datapath->ReferenceCount > 0)
         /\ Datapath' = stamped
         /\ Bugcheck' = TRUE
         /\ caller' = [pc |-> "bugcheck", Dir |-> d, Op |-> "dereference",
                       NeedRestart |-> FALSE]
         /\ UNCHANGED << ReferenceCount, CleanupEvent, worker, finalized >>

\* A queue operation takes the lock and references slot d.
CallReferenceDatapath(d) ==
    /\ ~Bugcheck
    /\ Operational
    /\ Lock = "free"
    /\ caller.pc = "idle"
    /\ issued["Rx"] + issued["Tx"] < MaxRefs
    /\ Lock' = "caller"
    /\ XdpGenericReferenceDatapath(d)
    /\ held' = [held EXCEPT ![d] = @ + 1]
    /\ issued' = [issued EXCEPT ![d] = @ + 1]
    /\ UNCHANGED << InterfaceRemovedEvent, Registration, XdpIfInterfaceHandle,
                    GenericDelayDetachTimeoutSec, now, filterVars, RestartRequested,
                    attachVars >>

\* The same call, made during a burst of MaxBurstRefs references.
CallBurstReferenceDatapath(d) ==
    /\ ~Bugcheck
    /\ Operational
    /\ Lock = "free"
    /\ caller.pc = "idle"
    /\ issued["Rx"] + issued["Tx"] < MaxBurstRefs
    /\ Lock' = "caller"
    /\ XdpGenericReferenceDatapath(d)
    /\ held' = [held EXCEPT ![d] = @ + 1]
    /\ issued' = [issued EXCEPT ![d] = @ + 1]
    /\ UNCHANGED << InterfaceRemovedEvent, Registration, XdpIfInterfaceHandle,
                    GenericDelayDetachTimeoutSec, now, filterVars, RestartRequested,
                    attachVars >>

\* A queue operation takes the lock and returns a reference it holds on slot d.
CallDereferenceDatapath(d) ==
    /\ ~Bugcheck
    /\ ObjectAlive
    /\ Lock = "free"
    /\ caller.pc = "idle"
    /\ held[d] > 0
    /\ Lock' = "caller"
    /\ \E created \in BOOLEAN :
          /\ created => FreeWorkers # {}
          /\ XdpGenericDereferenceDatapath(d, created)
    /\ held' = [held EXCEPT ![d] = @ - 1]
    /\ UNCHANGED << InterfaceRemovedEvent, Registration, XdpIfInterfaceHandle,
                    GenericDelayDetachTimeoutSec, now, issued, filterVars,
                    RestartRequested, attachVars >>

\* A queue operation that holds no reference on slot d dereferences it all the
\* same: the protocol bug the assertions are there to stop.  One dereference
\* at a time is in excess.
CallUnpairedDereferenceDatapath(d) ==
    /\ ~Bugcheck
    /\ ObjectAlive
    /\ Lock = "free"
    /\ caller.pc = "idle"
    /\ held[d] = 0
    /\ \A e \in Dirs : held[e] >= 0
    /\ Lock' = "caller"
    /\ \E created \in BOOLEAN :
          /\ created => FreeWorkers # {}
          /\ XdpGenericDereferenceDatapath(d, created)
    /\ held' = [held EXCEPT ![d] = @ - 1]
    /\ UNCHANGED << InterfaceRemovedEvent, Registration, XdpIfInterfaceHandle,
                    GenericDelayDetachTimeoutSec, now, issued, filterVars,
                    RestartRequested, attachVars >>

\* The call returns: the caller releases the lock and, told that a restart is
\* required, requests it.
CallerReturn ==
    /\ ~Bugcheck
    /\ caller.pc = "return"
    /\ Lock = "caller"
    /\ Lock' = "free"
    /\ IF caller.NeedRestart THEN XdpGenericRequestRestart
       ELSE UNCHANGED RestartRequested
    /\ caller' = IdleCaller
    /\ UNCHANGED << genericVars, Datapath, GenericDelayDetachTimeoutSec, now, worker,
                    ghostVars, filterVars, attachVars, Bugcheck >>

\* ------------------------------------------ the delay-dereference thread

\* The top of the thread's loop: compute DelayInterval from the current debounce
\* interval and start the timed wait on InterfaceRemovedEvent.
WorkerWait(w) ==
    LET me       == worker[w]
        interval == RTL_SEC_TO_100NANOSEC(GenericDelayDetachTimeoutSec)
        delay    == IF interval < me.TimeSinceLastDeref THEN 0
                    ELSE interval - me.TimeSinceLastDeref
    IN
    /\ ~Bugcheck
    /\ me.pc = "start"
    /\ worker' = [worker EXCEPT ![w] =
                     [me EXCEPT !.pc = "wait", !.DelayInterval = delay,
                                !.WaitUntil = Min(now + delay, MaxTime + 1)]]
    /\ UNCHANGED << Lock, genericVars, Datapath, GenericDelayDetachTimeoutSec, now,
                    caller, ghostVars, filterVars, RestartRequested, attachVars,
                    Bugcheck >>

\* KeWaitForSingleObject returns: STATUS_SUCCESS when the event is signalled,
\* STATUS_TIMEOUT once the timeout has run out.
WorkerWake(w) ==
    LET me == worker[w] IN
    /\ ~Bugcheck
    /\ me.pc = "wait"
    /\ InterfaceRemovedEvent \/ now >= me.WaitUntil
    /\ worker' = [worker EXCEPT ![w] =
                     [me EXCEPT !.pc = "woken", !.WaitUntil = 0,
                                !.Status = IF InterfaceRemovedEvent
                                           THEN "STATUS_SUCCESS"
                                           ELSE "STATUS_TIMEOUT"]]
    /\ UNCHANGED << Lock, genericVars, Datapath, GenericDelayDetachTimeoutSec, now,
                    caller, ghostVars, filterVars, RestartRequested, attachVars,
                    Bugcheck >>

\* An exit test that ignores how the wait ended.
C16_BreaksOnTimeOnly(since, delay, status) == since >= delay

\* The loop's exit test, made under the lock.
WorkerBreaks(since, delay, status) ==
    since >= delay \/ status = "STATUS_SUCCESS"

\* A thread that goes back to its wait without releasing the lock.
C18_LockKeptAcrossWait(breaks) == "worker"

\* The lock after the exit test: kept to finalize, released before the next wait
\* (RtlReleasePushLockExclusive at the foot of the loop).
LockAfterExitTest(breaks) == IF breaks THEN "worker" ELSE "free"

\* The thread takes the lock and recomputes the time since the slot's last
\* dereference; it keeps the lock to finalize, or releases it to wait again.
WorkerLock(w) ==
    LET me    == worker[w]
        since == now - Datapath[me.Dir].LastDereferenceTimestamp
    IN
    /\ ~Bugcheck
    /\ me.pc = "woken"
    /\ Lock = "free"
    /\ IF now < Datapath[me.Dir].LastDereferenceTimestamp
       THEN \* FRE_ASSERT(CurrentTimestamp >= Datapath->LastDereferenceTimestamp)
            /\ Bugcheck' = TRUE
            /\ UNCHANGED << Lock, worker >>
       ELSE /\ UNCHANGED Bugcheck
            /\ Lock' = LockAfterExitTest(WorkerBreaks(since, me.DelayInterval,
                                                      me.Status))
            /\ IF WorkerBreaks(since, me.DelayInterval, me.Status)
               THEN /\ worker' = [worker EXCEPT ![w] =
                                     [me EXCEPT !.pc = "finalize",
                                                !.TimeSinceLastDeref = since]]
               ELSE /\ worker' = [worker EXCEPT ![w] =
                                     [me EXCEPT !.pc = "start", !.DelayInterval = 0,
                                                !.Status = "NONE",
                                                !.TimeSinceLastDeref = since]]
    /\ UNCHANGED << genericVars, Datapath, GenericDelayDetachTimeoutSec, now, caller,
                    ghostVars, filterVars, RestartRequested, attachVars >>

\* A thread whose finalize takes two references off the slot.
C23_WorkerDecrementsTwice(slot) ==
    [slot EXCEPT !.ReferenceCount = IF @ > 1 THEN @ - 2 ELSE 0,
                 !.ReadyEvent = FALSE]

\* A thread that terminates without its decrement.
C13_WorkerDecrementSkipped(slot) == slot

\* A thread that decrements only when its decrement is the last one.
C1_WorkerDecrementOnlyLast(slot) ==
    IF slot.ReferenceCount - 1 = 0
    THEN [slot EXCEPT !.ReferenceCount = 0, !.ReadyEvent = FALSE]
    ELSE slot

\* The slot after the thread's decrement: reaching zero clears ReadyEvent.
WorkerDecrement(slot) ==
    IF slot.ReferenceCount - 1 = 0
    THEN [slot EXCEPT !.ReferenceCount = 0, !.ReadyEvent = FALSE]
    ELSE [slot EXCEPT !.ReferenceCount = @ - 1]

\* A thread that drops the object reference without requesting the restart.
C17_DereferenceWithoutRestart(me, needRestart) ==
    IF needRestart
    THEN [IdleWorker EXCEPT !.pc = "dereference", !.Dir = me.Dir]
    ELSE IdleWorker

\* A thread that requests the restart after every decrement.
C7_RestartsAfterEveryDecrement(me, needRestart) ==
    [IdleWorker EXCEPT !.pc = "restart", !.Dir = me.Dir]

\* The thread's own position after it released the lock.
WorkerAfterFinalize(me, needRestart) ==
    IF needRestart
    THEN [IdleWorker EXCEPT !.pc = "restart", !.Dir = me.Dir]
    ELSE IdleWorker

\* The finalize: the decrement under the lock, then the lock's release.
WorkerFinalize(w) ==
    LET me   == worker[w]
        slot == Datapath[me.Dir]
    IN
    /\ ~Bugcheck
    /\ me.pc = "finalize"
    /\ Lock = "worker"
    /\ IF AssertReferenced(slot.ReferenceCount)
       THEN /\ Datapath' = [Datapath EXCEPT ![me.Dir] = WorkerDecrement(slot)]
            /\ finalized' = [finalized EXCEPT ![me.Dir] = @ + 1]
            /\ Lock' = "free"
            /\ worker' = [worker EXCEPT ![w] =
                             WorkerAfterFinalize(me, slot.ReferenceCount - 1 = 0)]
            /\ UNCHANGED Bugcheck
       ELSE \* FRE_ASSERT(Datapath->ReferenceCount > 0)
            /\ Bugcheck' = TRUE
            /\ UNCHANGED << Datapath, finalized, Lock, worker >>
    /\ UNCHANGED << genericVars, GenericDelayDetachTimeoutSec, now, caller, held,
                    issued, filterVars, RestartRequested, attachVars >>

\* NeedRestart: XdpGenericRequestRestart(Generic), the object reference still held.
WorkerRequestRestart(w) ==
    /\ ~Bugcheck
    /\ worker[w].pc = "restart"
    /\ XdpGenericRequestRestart
    /\ worker' = [worker EXCEPT ![w].pc = "dereference"]
    /\ UNCHANGED << Lock, genericVars, Datapath, GenericDelayDetachTimeoutSec, now,
                    caller, ghostVars, filterVars, attachVars, Bugcheck >>

\* NeedRestart: XdpGenericDereference(Generic), then PsTerminateSystemThread.
WorkerDereference(w) ==
    /\ ~Bugcheck
    /\ worker[w].pc = "dereference"
    /\ XdpGenericDereference
    /\ worker' = [worker EXCEPT ![w] = IdleWorker]
    /\ UNCHANGED << Lock, InterfaceRemovedEvent, Registration, XdpIfInterfaceHandle,
                    Datapath, GenericDelayDetachTimeoutSec, now, caller, ghostVars,
                    filterVars, RestartRequested, attachVars, Bugcheck >>

\* XdpGenericDelayDereferenceDatapath, one step of one thread.
XdpGenericDelayDereferenceDatapath(w) ==
    \/ WorkerWait(w)
    \/ WorkerWake(w)
    \/ WorkerLock(w)
    \/ WorkerFinalize(w)
    \/ WorkerRequestRestart(w)
    \/ WorkerDereference(w)

\* ------------------------------------------------ pause, options, restart

\* The NDIS filter module is paused when it is attached.  NDIS pauses a running
\* module (XdpGenericPause) and restarts a paused one: it asks for the module's
\* options (XdpGenericFilterSetOptions) and, when they were set, restarts the
\* datapath (XdpGenericRestart).  It does so on NdisFRestartFilter and on its own.
FilterPaused == filter \in {"paused", "failed"}

\* XdpGenericPause: both ReadyEvents are cleared under the lock.
XdpGenericPause ==
    /\ ~Bugcheck
    /\ Operational
    /\ filter = "running"
    /\ Lock = "free"
    /\ Datapath' = [d \in Dirs |-> [Datapath[d] EXCEPT !.ReadyEvent = FALSE]]
    /\ filter' = "paused"
    /\ UNCHANGED << Lock, genericVars, GenericDelayDetachTimeoutSec, now, worker,
                    caller, ghostVars, Handlers, RestartRequested, attachVars,
                    Bugcheck >>

\* A handler set that installs both directions whatever the counts are.
C5_HandlersAlwaysRequested(dp) == [d \in Dirs |-> dp[d].ReferenceCount >= 0]

\* The handler set XdpGenericFilterSetOptions computes under the lock.
RequestedHandlers(dp) == [d \in Dirs |-> dp[d].ReferenceCount > 0]

\* XdpGenericFilterSetOptions, first locked phase: read both ReferenceCounts.
SetOptionsRead ==
    /\ ~Bugcheck
    /\ Operational
    /\ FilterPaused
    /\ Lock = "free"
    /\ Handlers' = RequestedHandlers(Datapath)
    /\ filter' = "submit"
    /\ RestartRequested' = FALSE
    /\ UNCHANGED << Lock, genericVars, Datapath, GenericDelayDetachTimeoutSec, now,
                    worker, caller, ghostVars, attachVars, Bugcheck >>

\* XdpGenericFilterSetOptions, NdisSetOptionalHandlers with the lock released;
\* a failure status is returned at once.
SetOptionsSubmit ==
    /\ ~Bugcheck
    /\ filter = "submit"
    /\ \E Status \in {"NDIS_STATUS_SUCCESS", "NDIS_STATUS_FAILURE"} :
          IF Status = "NDIS_STATUS_SUCCESS"
          THEN filter' = "commit" /\ UNCHANGED Handlers
          ELSE filter' = "failed" /\ Handlers' = NoHandlers
    /\ UNCHANGED << Lock, genericVars, Datapath, GenericDelayDetachTimeoutSec, now,
                    worker, caller, ghostVars, RestartRequested, attachVars,
                    Bugcheck >>

\* A second locked phase that reads the ReferenceCounts again.
C9_CommitReadsCountsAgain(dp, h) ==
    [d \in Dirs |-> [dp[d] EXCEPT !.Inserted = dp[d].ReferenceCount > 0]]

\* The slots after the second locked phase stored the submitted handler set.
CommitInserted(dp, h) == [d \in Dirs |-> [dp[d] EXCEPT !.Inserted = h[d]]]

\* XdpGenericFilterSetOptions, second locked phase, then return of success.
SetOptionsCommit ==
    /\ ~Bugcheck
    /\ filter = "commit"
    /\ Lock = "free"
    /\ Datapath' = CommitInserted(Datapath, Handlers)
    /\ Handlers' = NoHandlers
    /\ filter' = "restart"
    /\ UNCHANGED << Lock, genericVars, GenericDelayDetachTimeoutSec, now, worker,
                    caller, ghostVars, RestartRequested, attachVars, Bugcheck >>

\* A restart that sets ReadyEvent of both slots.
C20_RestartReadiesAll(dp) == [d \in Dirs |-> [dp[d] EXCEPT !.ReadyEvent = TRUE]]

\* The slots after XdpGenericRestart set ReadyEvent of every inserted slot.
RestartReady(dp) ==
    [d \in Dirs |-> IF dp[d].Inserted THEN [dp[d] EXCEPT !.ReadyEvent = TRUE]
                    ELSE dp[d]]

\* XdpGenericRestart, under the lock.
XdpGenericRestart ==
    /\ ~Bugcheck
    /\ filter = "restart"
    /\ Lock = "free"
    /\ Datapath' = RestartReady(Datapath)
    /\ filter' = "running"
    /\ UNCHANGED << Lock, genericVars, GenericDelayDetachTimeoutSec, now, worker,
                    caller, ghostVars, Handlers, RestartRequested, attachVars,
                    Bugcheck >>

\* XdpGenericFilterSetOptions, one step.
XdpGenericFilterSetOptions ==
    \/ SetOptionsRead
    \/ SetOptionsSubmit
    \/ SetOptionsCommit

\* ------------------------------------------------------ attach and detach

\* A cleanup that deregisters and keeps the stale handle.
C12_CleanupKeepsHandle(reg) == [reg EXCEPT !.DirectoryRegistered = FALSE]

\* A cleanup that leaves the registration in place.
C8_CleanupKeepsRegistration(reg) == reg

\* XdpGenericCleanupInterface: a registration held is deregistered and forgotten.
XdpGenericCleanupInterface(reg) ==
    IF reg.Registration
    THEN [Registration |-> FALSE, DirectoryRegistered |-> FALSE]
    ELSE reg

\* XdpRegisterInterface: it registers and stores the handle, or fails; a failing
\* call may leave the handle of a registration it did not undo.
RegisterOutcomes == {"registered", "failed", "failedPartial"}

\* What XdpGenericAttachInterface returns and leaves behind, given whether
\* XdpInitializeCapabilities succeeded and what XdpRegisterInterface did.
AttachResult(capsOk, reg) ==
    LET stored == capsOk /\ reg # "failed"
        ok     == capsOk /\ reg = "registered"
        after  == [Registration |-> stored, DirectoryRegistered |-> stored]
        final  == IF ok THEN after ELSE XdpGenericCleanupInterface(after)
    IN [Status |-> IF ok THEN "success" ELSE "failure",
        Registration |-> final.Registration,
        DirectoryRegistered |-> final.DirectoryRegistered,
        AddIf |-> ok]

XdpGenericAttachInterface ==
    /\ ~Bugcheck
    /\ lifecycle = "uninitialized"
    /\ \E capsOk \in BOOLEAN, reg \in RegisterOutcomes :
          LET r == AttachResult(capsOk, reg) IN
          /\ AttachStatus' = r.Status
          /\ Registration' = r.Registration
          /\ DirectoryRegistered' = r.DirectoryRegistered
          /\ AddIf' = r.AddIf
    /\ Lock' = "free"
    /\ InterfaceRemovedEvent' = FALSE
    /\ CleanupEvent' = FALSE
    /\ Datapath' = [d \in Dirs |-> [Datapath[d] EXCEPT !.ReadyEvent = FALSE]]
    /\ ReferenceCount' = 1
    /\ lifecycle' = "attached"
    /\ UNCHANGED << XdpIfInterfaceHandle, GenericDelayDetachTimeoutSec, now, worker,
                    caller, ghostVars, filterVars, RestartRequested, Bugcheck >>

\* The caller of the attach routine adds the XDPIF interface that a successful
\* attach described in AddIf; an interface added stores its handle through
\* AddIf->InterfaceHandle.  The queue operations start afterwards.
XdpIfAddInterfaces ==
    /\ ~Bugcheck
    /\ lifecycle = "attached"
    /\ \E added \in BOOLEAN :
          /\ added => AddIf
          /\ XdpIfInterfaceHandle' = added
    /\ lifecycle' = "active"
    /\ UNCHANGED << Lock, ReferenceCount, CleanupEvent, InterfaceRemovedEvent,
                    Registration, Datapath, GenericDelayDetachTimeoutSec, now, worker,
                    caller, ghostVars, filterVars, RestartRequested, AttachStatus,
                    AddIf, DirectoryRegistered, Bugcheck >>

\* XdpGenericDetachInterface is entered, the filter module being paused: it asks
\* for the XDPIF interface's removal and waits, or sets InterfaceRemovedEvent.
DetachBegin ==
    /\ ~Bugcheck
    /\ lifecycle = "active"
    /\ FilterPaused
    /\ IF XdpIfInterfaceHandle
       THEN /\ lifecycle' = "waitRemoved"
            /\ UNCHANGED InterfaceRemovedEvent
       ELSE /\ lifecycle' = "cleanup"
            /\ InterfaceRemovedEvent' = TRUE
    /\ UNCHANGED << Lock, ReferenceCount, CleanupEvent, Registration,
                    XdpIfInterfaceHandle, Datapath, GenericDelayDetachTimeoutSec, now,
                    worker, caller, ghostVars, filterVars, RestartRequested,
                    AttachStatus, AddIf, DirectoryRegistered, Bugcheck >>

\* XdpGenericRemoveInterfaceComplete: the removal requested has completed.
XdpGenericRemoveInterfaceComplete ==
    /\ ~Bugcheck
    /\ lifecycle = "waitRemoved"
    /\ ~InterfaceRemovedEvent
    /\ InterfaceRemovedEvent' = TRUE
    /\ UNCHANGED << Lock, ReferenceCount, CleanupEvent, Registration,
                    XdpIfInterfaceHandle, Datapath, GenericDelayDetachTimeoutSec, now,
                    worker, caller, ghostVars, filterVars, RestartRequested,
                    attachVars, Bugcheck >>

\* The wait on InterfaceRemovedEvent is over.
DetachRemoved ==
    /\ ~Bugcheck
    /\ lifecycle = "waitRemoved"
    /\ InterfaceRemovedEvent
    /\ XdpIfInterfaceHandle' = FALSE
    /\ lifecycle' = "cleanup"
    /\ UNCHANGED << Lock, ReferenceCount, CleanupEvent, InterfaceRemovedEvent,
                    Registration, Datapath, GenericDelayDetachTimeoutSec, now, worker,
                    caller, ghostVars, filterVars, RestartRequested, AttachStatus,
                    AddIf, DirectoryRegistered, Bugcheck >>

\* XdpGenericCleanupInterface, then the self-held reference is dropped.
DetachCleanup ==
    LET r == XdpGenericCleanupInterface(
                 [Registration |-> Registration,
                  DirectoryRegistered |-> DirectoryRegistered])
    IN
    /\ ~Bugcheck
    /\ lifecycle = "cleanup"
    /\ Registration' = r.Registration
    /\ DirectoryRegistered' = r.DirectoryRegistered
    /\ XdpGenericDereference
    /\ lifecycle' = "waitCleanup"
    /\ UNCHANGED << Lock, InterfaceRemovedEvent, XdpIfInterfaceHandle, Datapath,
                    GenericDelayDetachTimeoutSec, now, worker, caller, ghostVars,
                    filterVars, RestartRequested, AttachStatus, AddIf, Bugcheck >>

\* The wait on CleanupEvent is over: XdpGenericDetachInterface returns.
DetachReturn ==
    /\ ~Bugcheck
    /\ lifecycle = "waitCleanup"
    /\ CleanupEvent
    /\ lifecycle' = "detached"
    /\ UNCHANGED << Lock, genericVars, Datapath, GenericDelayDetachTimeoutSec, now,
                    worker, caller, ghostVars, filterVars, RestartRequested,
                    AttachStatus, AddIf, DirectoryRegistered, Bugcheck >>

\* XdpGenericDetachInterface, one step.
XdpGenericDetachInterface ==
    \/ DetachBegin
    \/ DetachRemoved
    \/ DetachCleanup
    \/ DetachReturn

\* ------------------------------------------------------ the specification

Next ==
    \/ Tick
    \/ \E d \in Dirs : CallReferenceDatapath(d)
    \/ \E d \in Dirs : CallDereferenceDatapath(d)
    \/ CallerReturn
    \/ \E w \in Workers : XdpGenericDelayDereferenceDatapath(w)
    \/ XdpGenericPause
    \/ XdpGenericFilterSetOptions
    \/ XdpGenericRestart
    \/ XdpGenericAttachInterface
    \/ XdpIfAddInterfaces
    \/ XdpGenericDetachInterface
    \/ XdpGenericRemoveInterfaceComplete

Spec == Init /\ [][Next]_vars

\* The same program with the registry watcher updating the debounce interval.
NextRegistry == Next \/ XdpGenericRegistryUpdate

SpecRegistry == Init /\ [][NextRegistry]_vars

\* The same program used by consumers that dereference what they do not hold.
NextUnpaired == Next \/ \E d \in Dirs : CallUnpairedDereferenceDatapath(d)

SpecUnpaired == Init /\ [][NextUnpaired]_vars

\* The program during a burst of references and dereferences: NDIS leaves the
\* filter module paused and serves no restart request meanwhile.
NextBurst ==
    \/ Tick
    \/ \E d \in Dirs : CallBurstReferenceDatapath(d)
    \/ \E d \in Dirs : CallDereferenceDatapath(d)
    \/ CallerReturn
    \/ \E w \in Workers : XdpGenericDelayDereferenceDatapath(w)
    \/ XdpGenericAttachInterface
    \/ XdpIfAddInterfaces
    \/ XdpGenericDetachInterface
    \/ XdpGenericRemoveInterfaceComplete

SpecBurst == Init /\ [][NextBurst]_vars

TypeOK ==
    /\ Lock \in {"free", "caller", "worker"}
    /\ ReferenceCount \in 0 .. (3 + MaxWorkers)
    /\ now \in 0 .. MaxTime
    /\ \A d \in Dirs : Datapath[d].ReferenceCount \in 0 .. MaxBurstRefs
    /\ \A d \in Dirs : held[d] \in 0 .. MaxBurstRefs /\ finalized[d] \in 0 .. issued[d]

\* Scheduling: every thread that can take a step eventually takes it, every
\* reference held is eventually returned, and the directory eventually completes
\* a removal it was asked for.
Fairness ==
    /\ \A w \in Workers : WF_vars(XdpGenericDelayDereferenceDatapath(w))
    /\ \A d \in Dirs : WF_vars(CallDereferenceDatapath(d))
    /\ WF_vars(CallerReturn)
    /\ WF_vars(XdpGenericRemoveInterfaceComplete)
    /\ WF_vars(DetachRemoved \/ DetachCleanup \/ DetachReturn)

FairSpec == Spec /\ Fairness

\* ------------------------------------------------------------ properties

Slots == Dirs

Count(d) == Datapath[d].ReferenceCount

\* The threads of slot d that still owe the slot their decrement.
PendingWorkers(d) ==
    {w \in Workers : worker[w].Dir = d
                     /\ worker[w].pc \in {"start", "wait", "woken", "finalize"}}

\* C1: under paired use a slot's ReferenceCount is never negative (no assertion
\* that guards a decrement fails), and whenever no delay-dereference thread is
\* pending for the slot it equals the references issued minus the dereferences
\* finalized, by the call itself or by a thread.
C1_ReferenceCountBalanced ==
    /\ ~Bugcheck
    /\ \A d \in Slots :
          /\ Count(d) >= 0
          /\ PendingWorkers(d) = {} => Count(d) = issued[d] - finalized[d]

\* A slot referenced twice and dereferenced twice, a thread having made the last
\* decrement, with no thread pending.
C1_Witness ==
    \E d \in Slots :
       /\ issued[d] = 2
       /\ finalized[d] = 2
       /\ PendingWorkers(d) = {}
       /\ \E w \in Workers : worker[w].Dir = d /\ worker[w].pc = "restart"

DetachEntered == lifecycle \in {"waitRemoved", "cleanup", "waitCleanup"}

\* C2: under fair scheduling, with every reference eventually returned and the
\* removal eventually completed, XdpGenericDetachInterface once entered
\* eventually returns, whatever threads are pending and whichever dereferences
\* come before or after InterfaceRemovedEvent is set.
C2_DetachReturns == DetachEntered ~> (lifecycle = "detached")

\* Detach has returned after both references of the run were taken and returned,
\* the last decrement having dropped the object reference.
C2_Witness ==
    /\ lifecycle = "detached"
    /\ InterfaceRemovedEvent
    /\ \E d \in Slots : issued[d] = MaxRefs /\ finalized[d] = MaxRefs

\* The contexts that will still touch the object: the holder of Generic->Lock,
\* which has yet to release it, a queue operation inside its call, which has yet
\* to release the lock and request the restart, and a thread that has not
\* terminated, which has yet to wait on InterfaceRemovedEvent, take the lock or
\* use NdisFilterHandle.
ObjectInUse ==
    \/ Lock # "free"
    \/ caller.pc # "idle"
    \/ \E w \in Workers : worker[w].pc # "idle"
    \/ filter \in {"submit", "commit", "restart"}

\* C3: once CleanupEvent is set no execution context still touches the
\* interface object: no thread, no restart request made for a slot's
\* deactivation and no path that dropped the slot's object reference accesses
\* the lock, the slots or the filter handle afterwards.
C3_NoUseAfterCleanup == CleanupEvent => ~ObjectInUse

\* A reference call on slot d returns in this step.
ReferenceStep(d) == issued'[d] = issued[d] + 1

\* A dereference call on slot d returns in this step.
DereferenceStep(d) == held'[d] = held[d] - 1

\* A thread of slot d makes its decrement in this step.
FinalizeStep(w, d) ==
    /\ worker[w].pc = "finalize"
    /\ worker[w].Dir = d
    /\ worker'[w].pc # "finalize"

\* What a burst of reference and dereference pairs does to slot d: the reference
\* that finds the slot unreferenced reports a restart; while the thread started by
\* the burst's first dereference is pending no reference and no dereference
\* reports a restart or starts a second thread; short of the removal, that thread
\* makes its decrement no sooner than the debounce interval after it was created,
\* so it is pending throughout the burst; and the finalize that asks for the
\* uninstalling restart leaves no other thread behind to ask again.
BurstStep(d) ==
    /\ ReferenceStep(d) /\ Count(d) = 0 => caller'.NeedRestart
    /\ ReferenceStep(d) /\ PendingWorkers(d) # {} => ~caller'.NeedRestart
    /\ DereferenceStep(d) /\ PendingWorkers(d) # {} =>
          /\ ~caller'.NeedRestart
          /\ PendingWorkers(d)' = PendingWorkers(d)
    /\ Cardinality(PendingWorkers(d)') <= 1
    /\ \A w \in Workers :
          /\ FinalizeStep(w, d) /\ worker[w].Status = "STATUS_TIMEOUT" =>
                now - worker[w].Created >=
                    RTL_SEC_TO_100NANOSEC(GenericDelayDetachTimeoutSec)
          /\ FinalizeStep(w, d) /\ worker'[w].pc = "restart" =>
                Count(d)' = 0 /\ PendingWorkers(d)' = {}

\* C4: a burst of reference + immediate-dereference pairs on one slot within the
\* debounce interval, thread creation succeeding, makes one handler-set
\* transition: only the first reference (0 -> 1) reports restart-required, no
\* later reference or dereference of the burst does, and only one thread's
\* finalize requests the uninstalling restart.
C4_BurstOneTransition == [][\A d \in Slots : BurstStep(d)]_vars

\* The second dereference of a burst returns, absorbed by the pending thread.
C4_Witness ==
    \E d \in Slots :
       /\ issued[d] = 2
       /\ PendingWorkers(d) # {}
       /\ caller.pc = "return"
       /\ caller.Op = "dereference"
       /\ caller.Dir = d
       /\ ~caller.NeedRestart
       /\ Count(d) = 1

Inserted(d) == Datapath[d].Inserted

\* XdpGenericFilterSetOptions reads the counts, or stores what it submitted, in
\* this step.
SetOptionsReadStep == FilterPaused /\ filter' = "submit"

SetOptionsCommitStep == filter = "commit" /\ filter' = "restart"

\* A handler set that installs slot d is on its way to the Inserted flags.
InstallInFlight(d) == filter \in {"submit", "commit"} /\ Handlers[d]

\* Slot d is unreferenced and uninstalled, and nothing on its way installs it.
Uninstalled(d) == Count(d) = 0 /\ ~Inserted(d) /\ ~InstallInFlight(d)

\* What the deactivation of slot d consists of: the thread's decrement to zero
\* is followed by its one restart request; a handler set read while the slot is
\* unreferenced leaves it out; Inserted changes only when a submitted set is
\* stored, to what was submitted; the change from TRUE to FALSE leaves the slot
\* uninstalled, and uninstalled it stays while it is unreferenced.
DeactivationStep(d) ==
    /\ \A w \in Workers :
          /\ FinalizeStep(w, d) /\ Count(d)' = 0 =>
                Count(d) = 1 /\ worker'[w].pc = "restart"
          /\ worker[w].pc = "restart" /\ worker'[w].pc # "restart" =>
                RestartRequested' /\ worker'[w].pc = "dereference"
    /\ SetOptionsReadStep /\ Count(d) = 0 => ~Handlers'[d]
    /\ SetOptionsCommitStep => Inserted(d)' = Handlers[d]
    /\ Inserted(d)' # Inserted(d) => SetOptionsCommitStep
    /\ Inserted(d) /\ ~Inserted(d)' /\ Count(d)' = 0 => Uninstalled(d)'
    /\ Uninstalled(d) /\ Count(d)' = 0 => Uninstalled(d)'

\* C5: after the last consumer dereferenced a slot and the debounce interval
\* elapsed with no new reference, Inserted goes from TRUE to FALSE exactly once:
\* the thread decrements ReferenceCount to 0 and requests one restart, the
\* following successful XdpGenericFilterSetOptions sets Inserted to FALSE, and
\* Inserted does not flip again until a new reference is taken.
C5_DeactivatesOnce == [][\A d \in Slots : DeactivationStep(d)]_vars

\* The debounce interval has elapsed, the thread has decremented the slot to 0
\* and requested the restart, and the handler set that uninstalls the inserted
\* slot is about to be stored.
C5_Witness ==
    \E d \in Slots :
       /\ Count(d) = 0
       /\ Inserted(d)
       /\ filter = "commit"
       /\ ~Handlers[d]
       /\ ~InterfaceRemovedEvent
       /\ now >= RTL_SEC_TO_100NANOSEC(GenericDelayDetachTimeoutSec)
       /\ \E w \in Workers : worker[w].Dir = d /\ worker[w].pc = "dereference"

\* No reference or dereference call is inside the lock or about to request its
\* restart, and no thread has decremented without having requested its restart.
NoOperationInFlight ==
    /\ caller.pc = "idle"
    /\ \A w \in Workers : worker[w].pc # "restart"

\* Every restart requested has been served by a round trip that succeeded.
RestartsCompleted == filter = "running" /\ ~RestartRequested

\* C6: however the references, dereferences and finalizes of the RX slot
\* interleave with those of the TX slot and with the restart round trips they
\* request, once the restarts requested have completed successfully and no
\* operation is in flight each direction's Inserted equals ReferenceCount > 0:
\* Inserted lags ReferenceCount > 0 by no more than one restart round trip.
C6_InsertedMatchesCount ==
    RestartsCompleted /\ NoOperationInFlight =>
        \A d \in Slots : Inserted(d) = (Count(d) > 0)

\* Restarts completed with one direction installed and referenced, the other
\* uninstalled after its reference was returned and its thread finalized.
C6_Witness ==
    /\ RestartsCompleted
    /\ NoOperationInFlight
    /\ Inserted("Rx") /\ Count("Rx") = 1 /\ held["Rx"] = 1
    /\ ~Inserted("Tx") /\ issued["Tx"] = 1 /\ finalized["Tx"] = 1
    /\ \A w \in Workers : worker[w].pc = "idle"

Ready(d) == Datapath[d].ReadyEvent

\* A handler set that leaves slot d out is on its way to the Inserted flags.
UninstallInFlight(d) == filter \in {"submit", "commit"} /\ ~Handlers[d]

\* Slot d is referenced and installed, and nothing on its way uninstalls it.
Installed(d) == Count(d) > 0 /\ Inserted(d) /\ ~UninstallInFlight(d)

\* The finalize of a thread whose slot was referenced again: the count stays
\* positive, ReadyEvent and Inserted are left alone, no restart is requested, the
\* object reference is kept and the thread terminates; and a slot installed
\* stays installed while it is referenced.
RereferencedStep(d) ==
    /\ \A w \in Workers :
          FinalizeStep(w, d) /\ held[d] > 0 =>
              /\ Count(d)' > 0
              /\ Ready(d)' = Ready(d)
              /\ Inserted(d)' = Inserted(d)
              /\ RestartRequested' = RestartRequested
              /\ ReferenceCount' = ReferenceCount
              /\ worker'[w].pc = "idle"
    /\ Installed(d) /\ Count(d)' > 0 => Installed(d)'

\* C7: a slot referenced (restart, Inserted = TRUE), dereferenced to its last
\* reference (the thread starts) and referenced again before the thread
\* finalizes remains Inserted = TRUE after the debounce interval: the finalize
\* leaves ReferenceCount > 0, does not clear ReadyEvent, requests no restart and
\* keeps the interface object reference.
C7_RereferencedStaysInserted == [][\A d \in Slots : RereferencedStep(d)]_vars

\* The debounce interval has elapsed and the thread holds the lock to finalize a
\* slot that is installed, ready and referenced again.
C7_Witness ==
    \E d \in Slots, w \in Workers :
       /\ worker[w].pc = "finalize"
       /\ worker[w].Dir = d
       /\ worker[w].Status = "STATUS_TIMEOUT"
       /\ worker[w].TimeSinceLastDeref >=
              RTL_SEC_TO_100NANOSEC(GenericDelayDetachTimeoutSec)
       /\ held[d] = 1
       /\ Count(d) = 2
       /\ Installed(d)
       /\ Ready(d)

\* C8: a failed XdpGenericAttachInterface (XdpInitializeCapabilities or
\* XdpRegisterInterface returned an error) returns the failure status and
\* leaves no partial registration: Registration is null, a registration
\* obtained was deregistered, the add-interface descriptor is not populated
\* and no XDPIF interface is ever added.
C8_FailedAttachLeavesNothing ==
    AttachStatus = "failure" =>
        /\ ~Registration
        /\ ~DirectoryRegistered
        /\ ~AddIf
        /\ ~XdpIfInterfaceHandle

\* XdpGenericAttachInterface has just returned a failure status.
C8_Witness == AttachStatus = "failure" /\ lifecycle = "attached"

SetOptionsSucceedStep == filter = "submit" /\ filter' = "commit"

SetOptionsFailStep == filter = "submit" /\ filter' = "failed"

\* One step seen from XdpGenericFilterSetOptions: the first locked phase records
\* whether each ReferenceCount is positive, a successful submission carries the
\* record to the second locked phase, which stores it in the Inserted flags;
\* a failed submission returns the error, and nothing else writes the flags.
SetOptionsStep ==
    /\ SetOptionsReadStep => \A d \in Dirs : Handlers'[d] = (Count(d) > 0)
    /\ SetOptionsSucceedStep =>
          /\ Handlers' = Handlers
          /\ \A d \in Dirs : Inserted(d)' = Inserted(d)
    /\ filter = "commit" /\ filter' = "commit" => Handlers' = Handlers
    /\ SetOptionsCommitStep => \A d \in Dirs : Inserted(d)' = Handlers[d]
    /\ SetOptionsFailStep => \A d \in Dirs : Inserted(d)' = Inserted(d)
    /\ (\E d \in Dirs : Inserted(d)' # Inserted(d)) => SetOptionsCommitStep

\* C9: XdpGenericFilterSetOptions updates the Inserted flags only when the
\* handler-set submission succeeds, each to whether the slot's ReferenceCount
\* was > 0 when read in the first locked phase; a failed submission leaves both
\* flags unchanged and returns the error status.
C9_InsertedOnlyOnSuccess == [][SetOptionsStep]_vars

\* The submission that was to uninstall a slot failed: the flag still holds the
\* result of the last successful submission.
C9_Witness ==
    /\ filter = "failed"
    /\ \E d \in Slots : Inserted(d) /\ Count(d) = 0 /\ PendingWorkers(d) = {}

\* XdpGenericReferenceDatapath seen as one step on slot d.
ReferenceDatapathStep(d) ==
    ReferenceStep(d) =>
        /\ Count(d)' = Count(d) + 1
        /\ caller'.NeedRestart <=> (Count(d) = 0)
        /\ ReferenceCount' = ReferenceCount + (IF Count(d) = 0 THEN 1 ELSE 0)

\* C10: XdpGenericReferenceDatapath increments the slot's ReferenceCount by
\* exactly one; it reports restart-required and increments the interface object
\* reference count if and only if the pre-increment ReferenceCount was 0.
C10_ReferenceDatapathEffect == [][\A d \in Dirs : ReferenceDatapathStep(d)]_vars

\* Both kinds of reference were taken on one slot: the first one took the object
\* reference, the one just made found the slot referenced and reports no restart.
C10_Witness ==
    \E d \in Slots :
       /\ caller.pc = "return"
       /\ caller.Op = "reference"
       /\ caller.Dir = d
       /\ ~caller.NeedRestart
       /\ Count(d) = 2
       /\ ReferenceCount = 2

\* PsCreateSystemThread succeeded in this step: a thread starts.
ThreadCreatedStep == \E w \in Workers : worker[w].pc = "idle" /\ worker'[w].pc = "start"

\* XdpGenericDereferenceDatapath seen as one step on slot d.
DereferenceDatapathStep(d) ==
    DereferenceStep(d) =>
        /\ Count(d) = 1 /\ ThreadCreatedStep =>
              /\ Count(d)' = 1
              /\ Ready(d)' = Ready(d)
              /\ ~caller'.NeedRestart
              /\ ReferenceCount' = ReferenceCount
              /\ finalized'[d] = finalized[d]
        /\ Count(d) = 1 /\ ~ThreadCreatedStep =>
              /\ Count(d)' = 0
              /\ ~Ready(d)'
              /\ caller'.NeedRestart
              /\ ReferenceCount' = ReferenceCount - 1
        /\ Count(d) > 1 =>
              /\ Count(d)' = Count(d) - 1
              /\ Ready(d)' = Ready(d)
              /\ ~caller'.NeedRestart
              /\ ReferenceCount' = ReferenceCount
              /\ ~ThreadCreatedStep

\* C11: XdpGenericDereferenceDatapath called with ReferenceCount = 1 returns,
\* when the thread was created, without decrementing, without clearing
\* ReadyEvent and with NeedRestart = FALSE; when the creation failed it clears
\* ReadyEvent, decrements to 0, drops the object reference and reports
\* NeedRestart = TRUE.  With ReferenceCount > 1 it only decrements by one and
\* reports no restart.
C11_DereferenceDatapathEffect ==
    [][\A d \in Dirs : DereferenceDatapathStep(d)]_vars

\* The synchronous deactivation of an installed slot of the running filter has
\* cleared ReadyEvent and reports the restart.
C11_Witness ==
    \E d \in Slots :
       /\ caller.pc = "return"
       /\ caller.Op = "dereference"
       /\ caller.Dir = d
       /\ caller.NeedRestart
       /\ Count(d) = 0
       /\ filter = "running"
       /\ Inserted(d)
       /\ ~Ready(d)

\* XdpGenericAttachInterface succeeded and no datapath reference was ever taken.
NoQueueActivity == AttachStatus = "success" /\ \A d \in Dirs : issued[d] = 0

\* Detach has dropped the self-held reference.
SelfReferenceDropped == lifecycle \in {"waitCleanup", "detached"}

\* Without queue activity the only object reference is the self-held one, which
\* detach drops, and no thread exists.
QuietLifecycle ==
    NoQueueActivity =>
        /\ \A w \in Workers : worker[w] = IdleWorker
        /\ ReferenceCount = (IF SelfReferenceDropped THEN 0 ELSE 1)
        /\ CleanupEvent = SelfReferenceDropped
        /\ SelfReferenceDropped => ~Registration /\ ~DirectoryRegistered
        /\ ~Bugcheck

\* C12: a successful attach followed by detach with no queue activity
\* completes: detach returns, the object reference count reaches zero exactly
\* when detach drops the self-held reference, Registration is null afterwards
\* and no delay-dereference thread was ever created or is left running.
C12_QuietAttachDetach ==
    /\ []QuietLifecycle
    /\ (NoQueueActivity /\ DetachEntered) ~> (lifecycle = "detached")

\* Detach has returned after a successful attach that added the XDPIF interface
\* and saw no reference.
C12_Witness ==
    /\ NoQueueActivity
    /\ lifecycle = "detached"
    /\ AddIf
    /\ InterfaceRemovedEvent
    /\ CleanupEvent
    /\ ~Registration

\* C13 as stated: in every reachable state a slot's ReferenceCount = 0 if and
\* only if no consumer holds a reference on the slot.
C13_CountZeroIffNoHolder ==
    \A d \in Slots : (Count(d) = 0) <=> (held[d] = 0)

\* C13, amended: a slot's ReferenceCount = 0 if and only if no consumer holds a
\* reference on the slot and no delay-dereference thread still owes the slot the
\* decrement of a dereference call that has returned.
C13_CountZeroIffNoHolderNoThread ==
    \A d \in Slots : (Count(d) = 0) <=> (held[d] = 0 /\ PendingWorkers(d) = {})

\* The last consumer's dereference has returned and the thread has not yet made
\* the decrement: the count is still 1.
C13_Witness ==
    \E d \in Slots :
       /\ held[d] = 0
       /\ Count(d) = 1
       /\ PendingWorkers(d) # {}
       /\ caller.pc = "idle"

\* A dereference call enters slot d in this step.
DereferenceEnterStep(d) ==
    /\ caller.pc = "idle"
    /\ caller'.pc # "idle"
    /\ caller'.Op = "dereference"
    /\ caller'.Dir = d

\* What the assertions do: a dereference call that finds ReferenceCount 0 stops
\* at the assertion and leaves the count alone; a thread that holds the lock to
\* finalize a slot whose ReferenceCount is 0 never makes its decrement, its one
\* step being the failing assertion; and the step that stops at an assertion
\* changes no reference count.
AssertionStep(d) ==
    /\ DereferenceEnterStep(d) /\ Count(d) = 0 =>
          Bugcheck' /\ caller'.pc = "bugcheck" /\ Count(d)' = 0
    /\ \A w \in Workers :
          worker[w].pc = "finalize" /\ worker[w].Dir = d /\ Count(d) = 0 =>
              /\ worker'[w] = worker[w]
              /\ Count(d)' = 0
              /\ finalized'[d] = finalized[d]
    /\ ~Bugcheck /\ Bugcheck' =>
          Count(d)' = Count(d) /\ ReferenceCount' = ReferenceCount

\* C14: no reference count is ever decremented below zero: a dereference of a
\* slot whose ReferenceCount is 0 (an unpaired dereference), or a thread's
\* finalize on such a slot, stops at a fatal assertion instead of producing a
\* negative count, and the failed operation leaves the ReferenceCount unchanged.
C14_NeverBelowZero ==
    /\ [](ReferenceCount >= 0 /\ \A d \in Slots : Count(d) >= 0)
    /\ [][\A d \in Slots : AssertionStep(d)]_vars

\* A thread's finalize has stopped at the assertion: the slot it was created
\* for was emptied by a dereference in excess.
C14_Witness ==
    \E d \in Slots, w \in Workers :
       /\ Bugcheck
       /\ Lock = "worker"
       /\ worker[w].pc = "finalize"
       /\ worker[w].Dir = d
       /\ Count(d) = 0
       /\ held[d] < 0

\* An unpaired dereference has stopped at the assertion.
UnpairedDereferenceStopped ==
    /\ Bugcheck
    /\ caller.pc = "bugcheck"
    /\ caller.Op = "dereference"
    /\ Count(caller.Dir) = 0

\* The thread of slot d keeps the lock to finalize in this step.
ProceedStep(w, d) ==
    /\ worker[w].pc = "woken"
    /\ worker[w].Dir = d
    /\ worker'[w].pc = "finalize"

\* The time since the most recent dereference call on slot d.
SinceLastDereference(d) == now - Datapath[d].LastDereferenceTimestamp

\* The full debounce interval has elapsed since the most recent dereference call
\* on slot d, or the removal was signalled.
DebounceElapsed(d) ==
    \/ SinceLastDereference(d) >= RTL_SEC_TO_100NANOSEC(GenericDelayDetachTimeoutSec)
    \/ InterfaceRemovedEvent

\* C15: a delay-dereference thread proceeds to finalize only when, holding the
\* lock after waking, the time since the slot's LastDereferenceTimestamp is at
\* least the full debounce interval or the removal signal has fired, on the
\* second and later loop iterations too; hence, absent removal, the final
\* decrement never happens sooner than the debounce interval after the most
\* recent dereference call on the slot.
C15_FinalizeAfterFullInterval ==
    [][\A d \in Slots, w \in Workers :
          /\ ProceedStep(w, d) => DebounceElapsed(d)
          /\ FinalizeStep(w, d) => DebounceElapsed(d)]_vars

\* The thread has not yet taken the lock to finalize.
Waiting(w) == worker[w].pc \in {"start", "wait", "woken"}

\* What the removal signal does to thread w: once set it stays set; detach sets
\* it at once when no XDPIF interface was added; a wait that returns while it is
\* set returns STATUS_SUCCESS, and a thread that takes the lock with that status
\* keeps it to finalize.
RemovalStep(w) ==
    /\ InterfaceRemovedEvent => InterfaceRemovedEvent'
    /\ lifecycle = "active" /\ lifecycle' # "active" =>
          IF XdpIfInterfaceHandle
          THEN lifecycle' = "waitRemoved" /\ ~InterfaceRemovedEvent'
          ELSE lifecycle' = "cleanup" /\ InterfaceRemovedEvent'
    /\ worker[w].pc = "wait" /\ worker'[w].pc # "wait" /\ InterfaceRemovedEvent =>
          worker'[w].pc = "woken" /\ worker'[w].Status = "STATUS_SUCCESS"
    /\ worker[w].pc = "woken" /\ worker'[w].pc # "woken"
          /\ worker[w].Status = "STATUS_SUCCESS" => worker'[w].pc = "finalize"

\* C16: once InterfaceRemovedEvent is set (by XdpGenericRemoveInterfaceComplete,
\* or at once by detach when the interface was never added), every pending
\* delay-dereference thread, and every thread created afterwards, finalizes on
\* its next wake without waiting out the remaining debounce interval: it does
\* so even if the clock never advances again.
C16_RemovalShortCircuits ==
    /\ [][\A w \in Workers : RemovalStep(w)]_vars
    /\ \A w \in Workers :
          (InterfaceRemovedEvent /\ Waiting(w)) ~> (worker[w].pc = "idle")

\* Woken by the removal signal, a thread holds the lock to finalize before the
\* debounce interval has elapsed since it was created.
C16_Witness ==
    \E d \in Slots, w \in Workers :
       /\ worker[w].pc = "finalize"
       /\ worker[w].Dir = d
       /\ worker[w].Status = "STATUS_SUCCESS"
       /\ InterfaceRemovedEvent
       /\ now - worker[w].Created <
              RTL_SEC_TO_100NANOSEC(GenericDelayDetachTimeoutSec)
       /\ worker[w].TimeSinceLastDeref < worker[w].DelayInterval

\* The order of a thread's steps: created, it waits; it takes the lock to
\* finalize once; it terminates from the finalize or after the restart request
\* and the object dereference, in that order.  The lock is a thread's only
\* while the thread is at its finalize.
ThreadOrderStep(w) ==
    LET pc == worker[w].pc
        to == worker'[w].pc
    IN
    /\ pc = "idle" /\ to # "idle" => to = "start"
    /\ Waiting(w) /\ to # pc => to \in {"start", "wait", "woken", "finalize"}
    /\ to = "finalize" /\ pc # "finalize" => pc = "woken"
    /\ pc = "finalize" /\ to # "finalize" => to \in {"restart", "idle"}
    /\ pc = "restart" /\ to # "restart" =>
          /\ to = "dereference"
          /\ RestartRequested'
          /\ ReferenceCount' = ReferenceCount
    /\ pc = "dereference" /\ to # "dereference" =>
          /\ to = "idle"
          /\ ReferenceCount' = ReferenceCount - 1

\* The thread's finalize on slot d: one decrement under the lock, of a count
\* that is positive; reaching 0 clears ReadyEvent and leads to the restart
\* request, anything else leaves ReadyEvent alone and terminates the thread.
ThreadFinalizeStep(w, d) ==
    FinalizeStep(w, d) =>
        /\ Lock = "worker" /\ Lock' = "free"
        /\ Count(d) > 0
        /\ Count(d)' = Count(d) - 1
        /\ finalized'[d] = finalized[d] + 1
        /\ ReferenceCount' = ReferenceCount
        /\ RestartRequested' = RestartRequested
        /\ IF Count(d)' = 0
           THEN ~Ready(d)' /\ worker'[w].pc = "restart"
           ELSE Ready(d)' = Ready(d) /\ worker'[w].pc = "idle"

\* C17: every delay-dereference thread makes exactly one decrement of its
\* slot's ReferenceCount before terminating, the assertion ReferenceCount > 0
\* holding at that point under paired usage; if and only if the decrement
\* reaches 0 the thread clears ReadyEvent under the lock and then, the lock
\* released, first requests a restart and only afterwards drops the object
\* reference.
C17_ThreadFinalizesOnce ==
    /\ [](\A w \in Workers :
             worker[w].pc = "finalize" => Count(worker[w].Dir) > 0 /\ ~Bugcheck)
    /\ []((Lock = "worker") <=> (\E w \in Workers : worker[w].pc = "finalize"))
    /\ [][\A w \in Workers :
             ThreadOrderStep(w) /\ \A d \in Slots : ThreadFinalizeStep(w, d)]_vars

\* A thread has decremented an installed slot of the running filter to 0,
\* cleared ReadyEvent, requested the restart and is about to drop the object
\* reference.
C17_Witness ==
    \E d \in Slots, w \in Workers :
       /\ worker[w].pc = "dereference"
       /\ worker[w].Dir = d
       /\ Count(d) = 0
       /\ ~Ready(d)
       /\ Inserted(d)
       /\ filter = "running"
       /\ RestartRequested
       /\ Lock = "free"

\* Who holds Generic->Lock: a queue operation inside its call, or the one thread
\* that is at its finalize; no thread in its timed wait, and at most one holder.
LockHolders ==
    /\ Lock \in {"free", "caller", "worker"}
    /\ (Lock = "caller") <=> (caller.pc # "idle")
    /\ (Lock = "worker") <=> (\E w \in Workers : worker[w].pc = "finalize")
    /\ Cardinality({w \in Workers : worker[w].pc = "finalize"}) <= 1
    /\ ~(caller.pc # "idle" /\ \E w \in Workers : worker[w].pc = "finalize")

\* A thread starts or ends its timed wait in this step.
WaitStep(w) ==
    \/ worker[w].pc = "start" /\ worker'[w].pc = "wait"
    \/ worker[w].pc = "wait" /\ worker'[w].pc = "woken"

\* The waits and the submission go on without the lock: the thread's timed wait,
\* detach's waits and the NdisSetOptionalHandlers submission neither take nor
\* release it.
UnlockedStep ==
    /\ (\E w \in Workers : WaitStep(w)) => Lock' = Lock
    /\ SetOptionsSucceedStep \/ SetOptionsFailStep => Lock' = Lock
    /\ DetachEntered /\ lifecycle' # lifecycle => Lock' = Lock
    /\ lifecycle = "active" /\ lifecycle' # lifecycle => Lock' = Lock

\* C18: Generic->Lock is never held by a context that is blocked in a wait or
\* that is submitting a handler-set change: the thread's timed wait on
\* InterfaceRemovedEvent, detach's waits on InterfaceRemovedEvent and
\* CleanupEvent and the NdisSetOptionalHandlers submission all happen with the
\* lock released, and at most one context holds the exclusive lock at a time.
C18_LockNotHeldAcrossWaits == []LockHolders /\ [][UnlockedStep]_vars

\* A queue operation holds the lock while the handler set is being submitted
\* and a thread is in its timed wait.
C18_Witness ==
    /\ Lock = "caller"
    /\ filter = "submit"
    /\ \E w \in Workers : worker[w].pc = "wait"

\* What holds whenever CleanupEvent is set.
CleanedUp ==
    /\ ReferenceCount = 0
    /\ \A d \in Slots : Count(d) = 0 /\ held[d] = 0 /\ PendingWorkers(d) = {}
    /\ SelfReferenceDropped

\* C19: CleanupEvent is set only by the decrement that takes the object
\* reference count to zero; in every state where it is set both slots'
\* ReferenceCount are 0, no delay-dereference thread has a decrement
\* outstanding and detach has dropped the self-held reference; detach does not
\* return while a slot reference is outstanding.
C19_CleanupOnlyAtZero ==
    /\ [](CleanupEvent => CleanedUp)
    /\ [](lifecycle = "detached" => CleanupEvent)
    /\ [][~CleanupEvent /\ CleanupEvent' =>
             ReferenceCount = 1 /\ ReferenceCount' = 0]_vars

\* CleanupEvent was set after both references of the run were taken on one
\* slot, returned and decremented, while detach waits for it.
C19_Witness ==
    /\ CleanupEvent
    /\ lifecycle = "waitCleanup"
    /\ \E d \in Slots : issued[d] = MaxRefs /\ finalized[d] = MaxRefs

PauseStep == filter = "running" /\ filter' = "paused"

RestartStep == filter = "restart" /\ filter' = "running"

\* The slot's fields other than ReadyEvent are left alone in this step.
OnlyReadyChanges(d) == Datapath'[d] = [Datapath[d] EXCEPT !.ReadyEvent = Ready(d)']

\* XdpGenericPause and XdpGenericRestart seen as one step each, made while no
\* other context holds the lock.
PauseRestartStep ==
    /\ PauseStep =>
          /\ Lock = "free" /\ Lock' = "free"
          /\ \A d \in Dirs : ~Ready(d)' /\ OnlyReadyChanges(d)
    /\ RestartStep =>
          /\ Lock = "free" /\ Lock' = "free"
          /\ \A d \in Dirs :
                /\ Inserted(d) => Ready(d)'
                /\ ~Inserted(d) => Ready(d)' = Ready(d)
                /\ OnlyReadyChanges(d)

\* C20: XdpGenericPause clears the ReadyEvent of both slots under the exclusive
\* lock; XdpGenericRestart, under the exclusive lock, sets the ReadyEvent of
\* exactly the slots whose Inserted flag is TRUE at that moment and leaves the
\* ReadyEvent of a slot with Inserted = FALSE untouched.
C20_PauseClearsRestartArms == [][PauseRestartStep]_vars

\* The filter was restarted with RX inserted and TX referenced but not yet
\* inserted: RX is ready, TX is not.
C20_Witness ==
    /\ filter = "running"
    /\ Inserted("Rx") /\ Ready("Rx")
    /\ ~Inserted("Tx") /\ ~Ready("Tx") /\ Count("Tx") > 0

\* The DelayInterval the top of the loop computes from the debounce interval
\* in force and the time since the last dereference found at the last wake.
Recomputed(w) ==
    LET interval == RTL_SEC_TO_100NANOSEC(GenericDelayDetachTimeoutSec) IN
    IF interval < worker[w].TimeSinceLastDeref THEN 0
    ELSE interval - worker[w].TimeSinceLastDeref

\* What an update of the debounce interval does to thread w: a wait in flight
\* keeps its duration and, short of the removal, ends no sooner than it was to;
\* the top of the loop computes the next wait from the interval then in force,
\* both to decide whether the interval has already elapsed and to compute the
\* remaining time.
LiveUpdateStep(w) ==
    /\ worker[w].pc = "wait" /\ worker'[w].pc = "wait" => worker'[w] = worker[w]
    /\ worker[w].pc = "wait" /\ worker'[w].pc # "wait" =>
          /\ worker'[w].DelayInterval = worker[w].DelayInterval
          /\ InterfaceRemovedEvent \/ now >= worker[w].WaitUntil
    /\ worker[w].pc = "start" /\ worker'[w].pc = "wait" =>
          /\ worker'[w].DelayInterval = Recomputed(w)
          /\ worker'[w].WaitUntil = Min(now + Recomputed(w), MaxTime + 1)

SelfReference == IF SelfReferenceDropped THEN 0 ELSE 1

ReferencedSlots == {d \in Slots : Count(d) > 0}

\* The threads that decremented their slot to 0 and have yet to drop the object
\* reference the slot had taken.
ReleasingWorkers == {w \in Workers : worker[w].pc \in {"restart", "dereference"}}

\* C22 as stated: in every state of the attached object observed with the lock
\* free, the object reference count equals the self-held reference plus the
\* number of slots whose ReferenceCount is > 0.
C22_ObjectCountIsSelfPlusSlots ==
    Lock = "free" /\ lifecycle # "uninitialized" =>
        ReferenceCount = SelfReference + Cardinality(ReferencedSlots)

\* C22, amended: in every state of the attached object observed with the lock
\* free, the object reference count equals the self-held reference, plus the
\* number of slots whose ReferenceCount is > 0, plus the number of threads that
\* decremented their slot to 0 and have not yet dropped the slot's object
\* reference: the thread releases it only after it requested the restart.
C22_ObjectCountIsSelfPlusSlotsPlusThreads ==
    Lock = "free" /\ lifecycle # "uninitialized" =>
        ReferenceCount = SelfReference + Cardinality(ReferencedSlots)
                             + Cardinality(ReleasingWorkers)

\* The lock is free, one slot is referenced and the thread of the other slot,
\* which it decremented to 0, still holds that slot's object reference.
C22_Witness ==
    /\ Lock = "free"
    /\ ~SelfReferenceDropped
    /\ Cardinality(ReferencedSlots) = 1
    /\ Cardinality(ReleasingWorkers) = 1
    /\ ReferenceCount = 3

\* C23: under paired usage at most one delay-dereference thread is pending per
\* slot, the slot's ReferenceCount equals the number of references consumers
\* hold plus 1 if a thread is pending for the slot, and a dereference made
\* while a thread is pending never creates a second thread.
C23_OnePendingThreadPerSlot ==
    /\ [](\A d \in Slots :
             /\ Cardinality(PendingWorkers(d)) <= 1
             /\ Count(d) = held[d] + Cardinality(PendingWorkers(d)))
    /\ [][\A d \in Slots :
             DereferenceStep(d) /\ PendingWorkers(d) # {} => ~ThreadCreatedStep]_vars

\* A slot referenced again while its thread is pending: one reference held, one
\* decrement owed by the thread.
C23_Witness ==
    \E d \in Slots :
       /\ Count(d) = 2
       /\ held[d] = 1
       /\ Cardinality(PendingWorkers(d)) = 1
       /\ caller.pc = "idle"

\* A thread of slot d takes a step.
ThreadStep(w, d) ==
    /\ worker'[w] # worker[w]
    /\ \/ worker[w].pc # "idle" /\ worker[w].Dir = d
       \/ worker'[w].pc # "idle" /\ worker'[w].Dir = d

\* A reference, a dereference or a thread's step on slot d leaves the other
\* slot as it is; the thread a dereference of slot d creates is slot d's and
\* stays slot d's until it terminates.
FrameStep(d) ==
    /\ ReferenceStep(d) \/ DereferenceStep(d) \/ (\E w \in Workers : ThreadStep(w, d))
          => \A e \in Dirs \ {d} : Datapath'[e] = Datapath[e]
    /\ DereferenceStep(d) =>
          \A w \in Workers :
             worker[w].pc = "idle" /\ worker'[w].pc # "idle" => worker'[w].Dir = d
    /\ \A w \in Workers :
          worker[w].pc # "idle" /\ worker'[w].pc # "idle" =>
              worker'[w].Dir = worker[w].Dir

\* C24: reference, dereference and thread finalize operations on one
\* direction's slot leave the other direction's slot unchanged: ReferenceCount,
\* LastDereferenceTimestamp, ReadyEvent and Inserted of the TX slot are
\* unchanged by any RX reference, dereference or thread step, and vice versa.
C24_OtherSlotUnchanged == [][\A d \in Dirs : FrameStep(d)]_vars

\* The RX slot's thread has decremented RX to 0 and cleared its ReadyEvent
\* while the TX slot stays referenced, inserted and ready.
C24_Witness ==
    /\ \E w \in Workers : worker[w].pc = "restart" /\ worker[w].Dir = "Rx"
    /\ Count("Rx") = 0 /\ ~Ready("Rx")
    /\ Count("Tx") = 1 /\ Inserted("Tx") /\ Ready("Tx")

\* A slot's ReadyEvent is set only while its handlers are inserted.
ReadyImpliesInserted == \A d \in Slots : Ready(d) => Inserted(d)

\* C25: with every restart round trip running as XdpGenericPause, then
\* XdpGenericFilterSetOptions, then XdpGenericRestart, a slot's ReadyEvent is
\* set only while the slot's Inserted is TRUE and its ReferenceCount is > 0,
\* for any interleaving of the round trips with reference and dereference calls
\* and thread finalizes.
C25_ReadyImpliesInsertedAndReferenced ==
    \A d \in Slots : Ready(d) => Inserted(d) /\ Count(d) > 0

====
